---- MODULE Spec2Model ----
(***************************************************************************)
(* Receipt-to-ledger-entry pipeline of ticket-AI (server/server.js and its *)
(* near-duplicate revisions).                                              *)
(*                                                                         *)
(* Amounts are integers counted in thousandths of the currency unit, so    *)
(* 120.00 is 120000 and 0.004 is 4.  A JavaScript value that may be a      *)
(* number or null is a record [t, n]: t names the JS type, n the amount.   *)
(* Three revisions of the server are modelled, selected by `variant`:      *)
(*   "ref"     server/server.js lines 1-631   (OpenAI + cropper)           *)
(*   "p000"    unnamed/part_000               (Gemini, VAT_MAP)            *)
(*   "gemini"  server/server.js lines 1166-1373                            *)
(***************************************************************************)
EXTENDS Integers, Sequences, FiniteSets, TLC

VARIABLES
  variant,        \* which revision of server.js is running
  env,            \* process.env: CNX_* settings, cropper switch, extractor key
  runtimeConfig,  \* let runtimeConfig
  cachedUuid,     \* let cachedUuid = { value, at }
  now,            \* Date.now(), in milliseconds
  issued,         \* number of session tokens the ledger API has handed out
  proc,           \* per in-flight HTTP request: position and local variables
  slots,          \* the request slots that accept requests in this run
  configJustChanged, \* history: the last step taken was POST /api/admin/config
  staleTokens,    \* tokens that were cached when a configuration change ran (history)
  inp,            \* pure-function harness: the input under test
  stage,          \* pure-function harness: "input" | "done"
  out,            \* pure-function harness: result of the function applied
  resolved        \* pure-function harness: result of the category/VAT resolver

pureVars == <<inp, stage, out, resolved>>
serverVars ==
  <<env, runtimeConfig, cachedUuid, now, issued, proc, slots, configJustChanged,
    staleTokens>>

Variants == {"ref", "p000", "gemini"}

(***************************************************************************)
(* JavaScript values                                                       *)
(***************************************************************************)
JsNull == [t |-> "null", n |-> 0]
JsNum(x) == [t |-> "number", n |-> x]
JsNaN == [t |-> "nan", n |-> 0]

IsNum(v) == v.t = "number"

\* Champ obligatoire manquant : null, undefined or blank string
requiredStr(s) == s # ""
requiredVal(v) == v.t # "null"

(***************************************************************************)
(* JavaScript strings are sequences of one-character strings; "e_acute"    *)
(* and "E_ACUTE" stand for the accented letter e.                          *)
(***************************************************************************)
JsStr(cs) == [t |-> "string", n |-> 0, s |-> cs]

Whitespace == {" ", "\n", "\t"}

DigitChars == {"0", "1", "2", "3", "4", "5", "6", "7", "8", "9"}

DigitVal(c) ==
  CASE c = "0" -> 0 [] c = "1" -> 1 [] c = "2" -> 2 [] c = "3" -> 3 [] c = "4" -> 4
    [] c = "5" -> 5 [] c = "6" -> 6 [] c = "7" -> 7 [] c = "8" -> 8 [] c = "9" -> 9

\* white space left in place
RemoveWsNone(cs) == cs

\* v.replace(/\s/g, "")
RemoveWs(cs) == SelectSeq(cs, LAMBDA c : c \notin Whitespace)

\* .replace(",", "."): the first comma only
RECURSIVE ReplaceFirstComma(_)
ReplaceFirstComma(cs) ==
  IF cs = <<>> THEN <<>>
  ELSE IF Head(cs) = "," THEN <<".">> \o Tail(cs)
  ELSE <<Head(cs)>> \o ReplaceFirstComma(Tail(cs))

\* length of the leading run of digits
RECURSIVE DigitRun(_)
DigitRun(cs) ==
  IF cs = <<>> \/ Head(cs) \notin DigitChars THEN 0 ELSE 1 + DigitRun(Tail(cs))

RECURSIVE ToNat(_)
ToNat(ds) ==
  IF ds = <<>> THEN 0
  ELSE ToNat(SubSeq(ds, 1, Len(ds) - 1)) * 10 + DigitVal(ds[Len(ds)])

\* the fraction digits as thousandths
FracMills(ds) == ToNat(SubSeq(ds \o <<"0", "0", "0">>, 1, 3))

\* parseFloat: the longest prefix [+-]digits[.digits]; no prefix gives NaN
\* (exponents and more than three decimals do not occur in the inputs)
parseFloat(cs) ==
  LET signed == cs # <<>> /\ Head(cs) \in {"+", "-"}
      body == IF signed THEN Tail(cs) ELSE cs
      ni == DigitRun(body)
      rest == SubSeq(body, ni + 1, Len(body))
      nf == IF rest # <<>> /\ Head(rest) = "." THEN DigitRun(Tail(rest)) ELSE 0
      abs == ToNat(SubSeq(body, 1, ni)) * 1000 + FracMills(SubSeq(rest, 2, nf + 1))
  IN IF ni = 0 /\ nf = 0 THEN [t |-> "nan", n |-> 0]
     ELSE [t |-> "number", n |-> IF signed /\ Head(cs) = "-" THEN 0 - abs ELSE abs]

toNumberOrNull(v) ==
  IF v.t \in {"null", "undefined"} \/ (v.t = "string" /\ v.s = <<>>) THEN JsNull
  ELSE IF v.t \in {"number", "nan"} THEN (IF v.t = "number" THEN v ELSE JsNull)
  ELSE IF v.t = "string"
    THEN LET x == parseFloat(ReplaceFirstComma(RemoveWs(v.s)))
         IN IF x.t = "number" THEN x ELSE JsNull
  ELSE JsNull

round2(x) == ((x + 5) \div 10) * 10

(***************************************************************************)
(* Dates: new Date(d) on the strings the harness feeds                     *)
(***************************************************************************)
ValidDate == "2024-03-15"
BadDate == "31/02/2024x"

ParseDate(d) ==
  IF d = ValidDate
    THEN [valid |-> TRUE, annee |-> 2024, mois |-> 3, jour |-> 15]
    ELSE [valid |-> FALSE, annee |-> 0, mois |-> 0, jour |-> 0]

isoDateOnly(d) == [ok |-> ParseDate(d).valid, value |-> d]

(***************************************************************************)
(* VAT table and category/VAT resolver                                     *)
(***************************************************************************)
VAT ==
  [r \in {"20", "10", "0"} |->
     CASE r = "20" -> [code_tva |-> "TN", compte_tva_44566 |-> "44566200"]
       [] r = "10" -> [code_tva |-> "TI", compte_tva_44566 |-> "44566100"]
       [] r = "0"  -> [code_tva |-> "",   compte_tva_44566 |-> ""]]

VAT_MAP ==
  [r \in {"20", "10", "5.5", "0"} |->
     CASE r = "20"  -> [code_tva |-> "TN", compte_tva_44566 |-> "44566200"]
       [] r = "10"  -> [code_tva |-> "TI", compte_tva_44566 |-> "44566100"]
       [] r = "5.5" -> [code_tva |-> "TR", compte_tva_44566 |-> "44566055"]
       [] r = "0"   -> [code_tva |-> "",   compte_tva_44566 |-> ""]]

chargesAccount(categoryKey, vatRate) ==
  CASE categoryKey = "petites_fournitures" ->
         IF vatRate = "20" THEN "60631000"
         ELSE IF vatRate = "10" THEN "60630000" ELSE ""
    [] categoryKey = "carburant" -> IF vatRate = "20" THEN "60614000" ELSE ""
    [] categoryKey = "repas_pro" -> IF vatRate = "10" THEN "62511000" ELSE ""
    [] categoryKey = "repas"     -> IF vatRate = "0"  THEN "62510000" ELSE ""
    [] categoryKey = "papeterie" -> IF vatRate = "20" THEN "60640000" ELSE ""
    [] categoryKey = "peages"    -> IF vatRate = "20" THEN "62512000" ELSE ""
    [] categoryKey = "parking"   -> IF vatRate = "20" THEN "62512000" ELSE ""
    [] OTHER -> ""

\* the object literal `map` of the Gemini revisions
chargesMap(vatRate) ==
  [c \in {"petites_fournitures", "carburant", "repas_pro", "repas",
          "papeterie", "peages", "parking"} |->
     CASE c = "petites_fournitures" ->
            IF vatRate = "20" THEN "60631000" ELSE "60630000"
       [] c = "carburant" -> "60614000"
       [] c = "repas_pro" -> "62511000"
       [] c = "repas"     -> "62510000"
       [] c = "papeterie" -> "60640000"
       [] c = "peages"    -> "62512000"
       [] c = "parking"   -> "62512000"]

getChargesAccount(categoryKey, vatRate) ==
  IF categoryKey \in DOMAIN chargesMap(vatRate)
    THEN chargesMap(vatRate)[categoryKey]
    ELSE "60630000"

chargesAccountGemini(categoryKey, vatRate) ==
  IF categoryKey \in DOMAIN chargesMap(vatRate)
    THEN chargesMap(vatRate)[categoryKey]
    ELSE ""

\* the resolver each revision's submit handler calls
resolveAccount(v, categoryKey, vatRate) ==
  CASE v = "ref"    -> chargesAccount(categoryKey, vatRate)
    [] v = "p000"   -> getChargesAccount(categoryKey, vatRate)
    [] v = "gemini" -> chargesAccountGemini(categoryKey, vatRate)

(***************************************************************************)
(* Ledger entry builder                                                    *)
(***************************************************************************)
JsUndef == [t |-> "undefined", n |-> 0]

Ligne(jour, numeroFacture, compte, libelle, credit, debit, hasCodeTVA, codeTVA) ==
  [jour |-> jour, numeroFacture |-> numeroFacture, compte |-> compte,
   libelle |-> libelle, credit |-> credit, debit |-> debit,
   hasCodeTVA |-> hasCodeTVA, codeTVA |-> codeTVA]

NoPayload ==
  [journal |-> "", mois |-> 0, annee |-> 0, ReferenceGed |-> "",
   lignesEcriture |-> <<>>]

Fail(msg) == [ok |-> FALSE, error |-> msg, payload |-> NoPayload]
Ok(p) == [ok |-> TRUE, error |-> "", payload |-> p]

\* the test that guards the third line: typeof tva === "number" && isFinite && tva > 0
hasTaxLine(tva) == IsNum(tva) /\ tva.n > 0

buildEcriturePayload(a) ==
  LET dt == ParseDate(a.dateTicketISO)
      l1 == Ligne(dt.jour, a.numeroTicket, a.compteFournisseur, a.raisonSociale,
                  JsNum(round2(a.ttc.n)), JsNum(0), FALSE, "")
      l2 == Ligne(dt.jour, a.numeroTicket, a.compteCharges, a.raisonSociale,
                  JsNum(0), JsNum(round2(a.ht.n)), a.codeTVA # "", a.codeTVA)
      l3 == Ligne(dt.jour, a.numeroTicket, a.compteTVA44566, a.raisonSociale,
                  JsNum(0), JsNum(round2(a.tva.n)), FALSE, "")
  IN IF ~dt.valid THEN Fail("dateTicketISO invalide")
     ELSE IF hasTaxLine(a.tva) /\ a.compteTVA44566 = ""
       THEN Fail("compteTVA44566 manquant")
     ELSE Ok([journal |-> a.journal, mois |-> dt.mois, annee |-> dt.annee,
              ReferenceGed |-> a.referenceGedId,
              lignesEcriture |->
                IF hasTaxLine(a.tva) THEN <<l1, l2, l3>> ELSE <<l1, l2>>])

(***************************************************************************)
(* POST /api/receipts/submit: the synchronous part, up to the first        *)
(* external call.  Result: the payload handed to the ledger post, or the   *)
(* error thrown.                                                           *)
(***************************************************************************)
\* the tax amount without the derivation from ttc and ht
deriveTvaAbsent(ttc, ht, tvaIn) == toNumberOrNull(tvaIn)

\* tva as derived at server.js:600-604
deriveTva(ttc, ht, tvaIn) ==
  LET tva == toNumberOrNull(tvaIn)
  IN IF tva.t = "null" /\ IsNum(ttc) /\ IsNum(ht) /\ ttc.n - ht.n >= 0
       THEN JsNum(ttc.n - ht.n)
       ELSE tva

submitBuildRef(meta) ==
  LET charges == chargesAccount(meta.categorie_ui, meta.tva_rate)
      ttc == toNumberOrNull(meta.montant_ttc)
      ht == toNumberOrNull(meta.ht)
      tva == deriveTva(ttc, ht, meta.tva_montant)
  IN IF ~requiredStr(meta.journal) THEN Fail("Champ obligatoire manquant : journal")
     ELSE IF ~requiredStr(meta.referenceGedId)
       THEN Fail("Champ obligatoire manquant : referenceGedId")
     ELSE IF ~requiredStr(meta.compteFournisseur)
       THEN Fail("Champ obligatoire manquant : compteFournisseur (F...)")
     ELSE IF ~requiredStr(meta.categorie_ui)
       THEN Fail("Champ obligatoire manquant : categorie_ui")
     ELSE IF ~requiredStr(meta.tva_rate)
       THEN Fail("Champ obligatoire manquant : tva_rate (20/10/0)")
     ELSE IF charges = "" THEN Fail("Combinaison categorie/TVA invalide")
     ELSE IF meta.tva_rate \notin DOMAIN VAT THEN Fail("tva_rate invalide (20/10/0)")
     ELSE IF meta.date_ticket # "" /\ ~isoDateOnly(meta.date_ticket).ok
       THEN Fail("Date invalide")
     ELSE IF ~requiredStr(meta.date_ticket)
       THEN Fail("Champ obligatoire manquant : date_ticket")
     ELSE IF ~requiredStr(meta.numero_ticket)
       THEN Fail("Champ obligatoire manquant : numero_ticket")
     ELSE IF ~requiredStr(meta.raison_sociale)
       THEN Fail("Champ obligatoire manquant : raison_sociale")
     ELSE IF ~requiredVal(ttc) THEN Fail("Champ obligatoire manquant : montant_ttc")
     ELSE IF ~requiredVal(ht) THEN Fail("Champ obligatoire manquant : ht")
     ELSE buildEcriturePayload(
            [journal |-> meta.journal, referenceGedId |-> meta.referenceGedId,
             dateTicketISO |-> isoDateOnly(meta.date_ticket).value,
             numeroTicket |-> meta.numero_ticket,
             compteFournisseur |-> meta.compteFournisseur,
             raisonSociale |-> meta.raison_sociale,
             compteCharges |-> charges,
             codeTVA |-> VAT[meta.tva_rate].code_tva,
             compteTVA44566 |-> VAT[meta.tva_rate].compte_tva_44566,
             ttc |-> ttc, ht |-> ht,
             tva |-> IF tva.t # "null" THEN tva ELSE JsNum(0)])

\* part_000:174-190 builds the payload inline, after the first two external calls
vatP000(rate) == IF rate \in DOMAIN VAT_MAP THEN VAT_MAP[rate] ELSE VAT_MAP["20"]

submitBuildP000(meta) ==
  LET dt == ParseDate(meta.date_ticket)
      vat == vatP000(meta.tva_rate)
      tva == toNumberOrNull(meta.tva_montant)
      l1 == Ligne(dt.jour, meta.numero_ticket, meta.compteFournisseur,
                  meta.raison_sociale, toNumberOrNull(meta.montant_ttc), JsNum(0),
                  FALSE, "")
      l2 == Ligne(dt.jour, meta.numero_ticket,
                  getChargesAccount(meta.categorie_ui, meta.tva_rate),
                  meta.raison_sociale, JsNum(0), toNumberOrNull(meta.ht),
                  TRUE, vat.code_tva)
      l3 == Ligne(dt.jour, meta.numero_ticket, vat.compte_tva_44566,
                  meta.raison_sociale, JsNum(0), tva, FALSE, "")
  IN Ok([journal |-> meta.journal, mois |-> dt.mois, annee |-> dt.annee,
         ReferenceGed |-> meta.referenceGedId,
         lignesEcriture |->
           IF IsNum(tva) /\ tva.n > 0 THEN <<l1, l2, l3>> ELSE <<l1, l2>>])

\* server.js:1340-1349
submitBuildGemini(meta) ==
  LET dt == ParseDate(meta.date_ticket)
      l1 == Ligne(dt.jour, "", meta.compteFournisseur, meta.raison_sociale,
                  meta.montant_ttc, JsUndef, FALSE, "")
      l2 == Ligne(dt.jour, "",
                  chargesAccountGemini(meta.categorie_ui, meta.tva_rate),
                  meta.raison_sociale, JsUndef, meta.ht, FALSE, "")
  IN Ok([journal |-> meta.journal, mois |-> dt.mois, annee |-> dt.annee,
         ReferenceGed |-> meta.referenceGedId,
         lignesEcriture |-> <<l1, l2>>])

submitBuild(v, meta) ==
  CASE v = "ref"    -> submitBuildRef(meta)
    [] v = "p000"   -> submitBuildP000(meta)
    [] v = "gemini" -> submitBuildGemini(meta)

\* part_000:40-44
toNumberOrNullP000(v) ==
  IF v.t \in {"null", "undefined"} \/ (v.t = "string" /\ v.s = <<>>) THEN JsNull
  ELSE LET x == IF v.t = "string"
                  THEN parseFloat(ReplaceFirstComma(RemoveWs(v.s))) ELSE v
       IN IF x.t = "number" THEN x ELSE JsNull

(***************************************************************************)
(* Suggestions of the upload handler: keyword matcher and ratio guesser    *)
(***************************************************************************)
\* the JavaScript null of a suggestion field
Absent == "(null)"

toLowerCase(cs) ==
  [i \in DOMAIN cs |->
     LET c == cs[i]
     IN CASE c = "A" -> "a"
    [] c = "B" -> "b"
    [] c = "C" -> "c"
    [] c = "D" -> "d"
    [] c = "E" -> "e"
    [] c = "F" -> "f"
    [] c = "G" -> "g"
    [] c = "H" -> "h"
    [] c = "I" -> "i"
    [] c = "J" -> "j"
    [] c = "K" -> "k"
    [] c = "L" -> "l"
    [] c = "M" -> "m"
    [] c = "N" -> "n"
    [] c = "O" -> "o"
    [] c = "P" -> "p"
    [] c = "Q" -> "q"
    [] c = "R" -> "r"
    [] c = "S" -> "s"
    [] c = "T" -> "t"
    [] c = "U" -> "u"
    [] c = "V" -> "v"
    [] c = "W" -> "w"
    [] c = "X" -> "x"
    [] c = "Y" -> "y"
    [] c = "Z" -> "z"
    [] c = "E_ACUTE" -> "e_acute"
    [] OTHER -> c]

\* t.includes(k)
Includes(t, k) ==
  \E i \in 1..(Len(t) - Len(k) + 1) : SubSeq(t, i, i + Len(k) - 1) = k

hasAny(t, arr) == \E k \in arr : Includes(t, k)

KwRepas ==
  {<<"r", "e", "p", "a", "s">>,
   <<"r", "e", "s", "t", "a", "u", "r", "a", "n", "t">>,
   <<"c", "a", "f", "e_acute">>,
   <<"c", "a", "f", "e">>,
   <<"b", "r", "a", "s", "s", "e", "r", "i", "e">>,
   <<"b", "i", "s", "t", "r", "o", "t">>,
   <<"m", "e", "n", "u">>}

KwCarburant ==
  {<<"c", "a", "r", "b", "u", "r", "a", "n", "t">>,
   <<"g", "a", "s", "o", "i", "l">>,
   <<"g", "a", "z", "o", "l", "e">>,
   <<"g", "o">>,
   <<"s", "u", "p", "e", "r">>,
   <<"s", "p">>,
   <<"e", "s", "s", "e", "n", "c", "e">>,
   <<"s", "t", "a", "t", "i", "o", "n", "-", "s", "e", "r", "v", "i", "c", "e">>}

KwParking ==
  {<<"p", "a", "r", "k", "i", "n", "g">>,
   <<"s", "t", "a", "t", "i", "o", "n", "n", "e", "m", "e", "n", "t">>,
   <<"p", "a", "r", "k">>}

KwPeage ==
  {<<"p", "e", "a", "g", "e">>,
   <<"p", "e_acute", "a", "g", "e">>,
   <<"a", "s", "f">>,
   <<"e", "s", "c", "o", "t", "a">>,
   <<"a", "p", "r", "r">>,
   <<"s", "a", "n", "e", "f">>}

\* the keyword sets checked in the reverse order
suggestFromTextReversed(text) ==
  LET t == toLowerCase(text)
  IN IF hasAny(t, KwPeage)
       THEN [categorie_ui |-> "peages", compteF |-> "FPEAGE", tva_rate |-> "20"]
     ELSE IF hasAny(t, KwParking)
       THEN [categorie_ui |-> "parking", compteF |-> "FPARKING", tva_rate |-> "20"]
     ELSE IF hasAny(t, KwCarburant)
       THEN [categorie_ui |-> "carburant", compteF |-> "FCARBU", tva_rate |-> "20"]
     ELSE IF hasAny(t, KwRepas)
       THEN [categorie_ui |-> "repas_pro", compteF |-> "FREPAS", tva_rate |-> "10"]
     ELSE [categorie_ui |-> Absent, compteF |-> "FDIVERS", tva_rate |-> Absent]

suggestFromText(text) ==
  LET t == toLowerCase(text)
  IN IF hasAny(t, KwRepas)
       THEN [categorie_ui |-> "repas_pro", compteF |-> "FREPAS", tva_rate |-> "10"]
     ELSE IF hasAny(t, KwCarburant)
       THEN [categorie_ui |-> "carburant", compteF |-> "FCARBU", tva_rate |-> "20"]
     ELSE IF hasAny(t, KwParking)
       THEN [categorie_ui |-> "parking", compteF |-> "FPARKING", tva_rate |-> "20"]
     ELSE IF hasAny(t, KwPeage)
       THEN [categorie_ui |-> "peages", compteF |-> "FPEAGE", tva_rate |-> "20"]
     ELSE [categorie_ui |-> Absent, compteF |-> "FDIVERS", tva_rate |-> Absent]

Abs(x) == IF x < 0 THEN 0 - x ELSE x

\* a guesser whose 20% band reaches into the 10% band
guessVatRateWideBand(ht, tva) ==
  IF ht.t # "number" \/ ht.n <= 0 THEN Absent
  ELSE IF tva.t # "number" \/ tva.n < 0 THEN Absent
  ELSE IF Abs(100 * tva.n - 20 * ht.n) < 13 * ht.n THEN "20"
  ELSE IF Abs(100 * tva.n - 10 * ht.n) < 2 * ht.n THEN "10"
  ELSE IF tva.n = 0 THEN "0"
  ELSE Absent

\* r = tva / ht with ht > 0: |r - 0.2| < 0.03 is |100 tva - 20 ht| < 3 ht
guessVatRateFromAmounts(ht, tva) ==
  IF ht.t # "number" \/ ht.n <= 0 THEN Absent
  ELSE IF tva.t # "number" \/ tva.n < 0 THEN Absent
  ELSE IF Abs(100 * tva.n - 20 * ht.n) < 3 * ht.n THEN "20"
  ELSE IF Abs(100 * tva.n - 10 * ht.n) < 2 * ht.n THEN "10"
  ELSE IF tva.n = 0 THEN "0"
  ELSE Absent

\* [a, ...b].join(" ")
RECURSIVE JoinSp(_)
JoinSp(ts) ==
  IF ts = <<>> THEN <<>>
  ELSE IF Len(ts) = 1 THEN ts[1]
  ELSE ts[1] \o <<" ">> \o JoinSp(Tail(ts))

\* the tva_rate of the suggestion with the keyword rate taking precedence
suggestedRateKeywordFirst(guessedRate, sugRate) ==
  IF sugRate # Absent THEN sugRate ELSE guessedRate

\* guessedRate || sug.tva_rate
suggestedRate(guessedRate, sugRate) ==
  IF guessedRate \notin {Absent, ""} THEN guessedRate ELSE sugRate

\* server.js:539-564: the suggestion of the upload response
suggestionRef(extraction) ==
  LET montant_ht == toNumberOrNull(extraction.montant_ht)
      montant_tva == toNumberOrNull(extraction.montant_tva)
      textForSuggest == JoinSp(<<extraction.raison_sociale>> \o extraction.mots_cles)
      sug == suggestFromText(textForSuggest)
      guessedRate == guessVatRateFromAmounts(montant_ht, montant_tva)
  IN [categorie_ui |-> sug.categorie_ui, compteF |-> sug.compteF,
      tva_rate |-> suggestedRate(guessedRate, sug.tva_rate)]

\* part_000:136-153
suggestionP000(extraction) ==
  LET ht == toNumberOrNullP000(extraction.montant_ht)
      tva == toNumberOrNullP000(extraction.montant_tva)
      meal == \E i \in DOMAIN extraction.mots_cles :
                toLowerCase(extraction.mots_cles[i])
                  \in {<<"r", "e", "p", "a", "s">>, <<"r", "e", "s", "t", "o">>}
  IN [categorie_ui |-> IF meal THEN "repas_pro" ELSE "petites_fournitures",
      compteF |-> IF meal THEN "FREPAS" ELSE "FDIVERS",
      tva_rate |->
        \* null >= 0 is true in JavaScript: a missing tva counts as 0
        IF ht.t = "number" /\ ht.n > 0 /\ (tva.t = "null" \/ tva.n >= 0)
          THEN IF 100 * tva.n < 8 * ht.n THEN "5.5"
               ELSE IF 100 * tva.n < 15 * ht.n THEN "10" ELSE "20"
          ELSE "20"]

suggestionOf(v, extraction) ==
  IF v = "ref" THEN suggestionRef(extraction) ELSE suggestionP000(extraction)

(***************************************************************************)
(* Extraction response parser.  The model's answer is a sequence of        *)
(* lexemes: a code fence, the tag json, white space, braces, commas, a     *)
(* complete member ("a":1), a key that awaits an object ("b":), or prose.  *)
(***************************************************************************)
\* the lexeme of a code fence (three backquotes)
Fence == "<fence>"
MemberLexemes == {"a:1", "c:2"}
KeyLexemes == {"b:"}

RECURSIVE TrimLeft(_)
TrimLeft(ts) ==
  IF ts # <<>> /\ Head(ts) \in Whitespace THEN TrimLeft(Tail(ts)) ELSE ts

RECURSIVE TrimRight(_)
TrimRight(ts) ==
  IF ts # <<>> /\ ts[Len(ts)] \in Whitespace
    THEN TrimRight(SubSeq(ts, 1, Len(ts) - 1)) ELSE ts

trim(ts) == TrimRight(TrimLeft(ts))

\* .replace(/^<fence>(?:json)?\s*/i, "")
StripLeadingFence(ts) ==
  IF ts # <<>> /\ Head(ts) = Fence
    THEN LET r == Tail(ts)
         IN TrimLeft(IF r # <<>> /\ Head(r) \in {"json", "JSON"} THEN Tail(r) ELSE r)
    ELSE ts

\* .replace(/\s*<fence>$/i, "")
StripTrailingFence(ts) ==
  IF ts # <<>> /\ ts[Len(ts)] = Fence
    THEN TrimRight(SubSeq(ts, 1, Len(ts) - 1))
    ELSE ts

\* indexOf / lastIndexOf, 0 when absent
indexOf(ts, c) ==
  IF \E i \in DOMAIN ts : ts[i] = c
    THEN CHOOSE i \in DOMAIN ts : ts[i] = c /\ \A j \in 1..(i - 1) : ts[j] # c
    ELSE 0

lastIndexOf(ts, c) ==
  IF \E i \in DOMAIN ts : ts[i] = c
    THEN CHOOSE i \in DOMAIN ts : ts[i] = c /\ \A j \in (i + 1)..Len(ts) : ts[j] # c
    ELSE 0

\* JSON.parse of one object: the position after the object that starts at i,
\* 0 when there is none
RECURSIVE ParseObject(_, _)
RECURSIVE ParseMembers(_, _)
ParseObject(ts, i) ==
  IF i > Len(ts) \/ ts[i] # "{" THEN 0
  ELSE IF i + 1 <= Len(ts) /\ ts[i + 1] = "}" THEN i + 2
  ELSE ParseMembers(ts, i + 1)

ParseMembers(ts, i) ==
  LET j == IF i > Len(ts) THEN 0
           ELSE IF ts[i] \in MemberLexemes THEN i + 1
           ELSE IF ts[i] \in KeyLexemes THEN ParseObject(ts, i + 1)
           ELSE 0
  IN IF j = 0 \/ j > Len(ts) THEN 0
     ELSE IF ts[j] = "}" THEN j + 1
     ELSE IF ts[j] = "," THEN ParseMembers(ts, j + 1)
     ELSE 0

JSONparse(ts) ==
  LET bare == RemoveWs(ts)
  IN [ok |-> ParseObject(bare, 1) = Len(bare) + 1, value |-> bare]

NoValue == <<>>

parseOpenAIJson(raw) ==
  LET cleaned == trim(StripTrailingFence(StripLeadingFence(trim(raw))))
      i == indexOf(cleaned, "{")
      j == lastIndexOf(cleaned, "}")
      jsonOnly == SubSeq(cleaned, i, j)
  IN IF i = 0 \/ j = 0 \/ j <= i
       THEN [ok |-> FALSE, error |-> "OpenAI: JSON introuvable", value |-> NoValue]
     ELSE IF ~JSONparse(jsonOnly).ok
       THEN [ok |-> FALSE, error |-> "OpenAI: JSON invalide", value |-> NoValue]
     ELSE [ok |-> TRUE, error |-> "", value |-> JSONparse(jsonOnly).value]

\* part_000:127-129: JSON.parse(text.match(/\{[\s\S]*\}/)[0])
parseGeminiText(text) ==
  LET i == indexOf(text, "{")
      j == lastIndexOf(text, "}")
      jsonStr == SubSeq(text, i, j)
  IN IF i = 0 \/ j = 0 \/ j <= i
       THEN [ok |-> FALSE, error |-> "TypeError: Cannot read properties of null",
             value |-> NoValue]
     ELSE IF ~JSONparse(jsonStr).ok
       THEN [ok |-> FALSE, error |-> "SyntaxError: Unexpected token", value |-> NoValue]
     ELSE [ok |-> TRUE, error |-> "", value |-> JSONparse(jsonStr).value]

parseExtraction(v, raw) ==
  IF v = "ref" THEN parseOpenAIJson(raw) ELSE parseGeminiText(raw)

normalize(v, x) == IF v = "ref" THEN toNumberOrNull(x) ELSE toNumberOrNullP000(x)

(***************************************************************************)
(* Inputs: what the extraction service may answer                          *)
(***************************************************************************)
HtInputs ==
  {JsNum(100000), JsNum(0), JsNum(0 - 100000), JsNum(1234500), JsNull, JsUndef, JsNaN,
   JsStr(<<>>), JsStr(<<"a", "b", "c">>), JsStr(<<"1", " ", "2", "3", "4", ",", "5", "6">>),
   [t |-> "boolean", n |-> 1]}

TvaInputs ==
  {JsNum(0), JsNum(8000), JsNum(10000), JsNum(15000), JsNum(17000), JsNum(20000),
   JsNum(23000), JsNum(0 - 5000), JsNull, JsNaN, JsStr(<<"2", "0", ",", "0", "0">>)}

NameInputs ==
  {<<"K", "A", "Y", "S", "E", "R">>,
   <<"R", "e", "s", "t", "a", "u", "r", "a", "n", "t", " ", "d", "u", " ", "P", "a", "r", "k", "i", "n", "g">>,
   <<"P", "a", "r", "k", "i", "n", "g", " ", "I", "n", "d", "i", "g", "o">>,
   <<"A", "S", "F", " ", "P", "e_acute", "a", "g", "e">>,
   <<"P", "A", "R", "K", " ", "A", "N", "D", " ", "F", "L", "Y">>}

KeywordInputs ==
  {<<>>, <<<<"m", "e", "n", "u">>>>, <<<<"R", "e", "s", "t", "o">>>>,
   <<<<"s", "a", "n", "e", "f">>, <<"s", "t", "a", "t", "i", "o", "n", "n", "e", "m", "e", "n", "t">>>>}

RawInputs ==
  {<<>>,
   <<"{", "a:1", "}">>,
   <<Fence, "json", "\n", "{", "a:1", ",", "b:", "{", "c:2", "}", "}", "\n", Fence>>,
   <<Fence, "\n", "{", "}", "\n", Fence, "\n">>,
   <<"Voici", " ", "{", "a:1", "}", " ", "merci">>,
   <<"Voici", " ", "le", " ", "ticket">>,
   <<"}", " ", "{">>,
   <<"{", "a:1">>,
   <<"{", "a:1", "c:2", "}">>,
   <<"{", "a:1", "}", " ", "{", "c:2", "}">>}

ExtractionInputs ==
  [montant_ht : HtInputs, montant_tva : TvaInputs, raison_sociale : NameInputs,
   mots_cles : KeywordInputs, raw : RawInputs]

(***************************************************************************)
(* Inputs: the meta objects a client may post                              *)
(***************************************************************************)
CategoryInputs ==
  {"petites_fournitures", "carburant", "repas_pro", "repas", "papeterie",
   "peages", "parking", "cadeaux"}

RateInputs == {"20", "10", "5.5", "0", "7"}

AmountInputs == {JsNum(0), JsNum(4), JsNum(5), JsNum(20000), JsNum(100000),
                 JsNum(120000)}

MetaInputs ==
  [journal : {"ACH"}, referenceGedId : {"987"}, compteFournisseur : {"FDIVERS"},
   categorie_ui : CategoryInputs, tva_rate : RateInputs,
   date_ticket : {ValidDate, BadDate}, numero_ticket : {"T42"},
   raison_sociale : {"KAYSER"},
   montant_ttc : AmountInputs, ht : AmountInputs,
   tva_montant : AmountInputs \cup {JsNull}]

NoMeta ==
  [journal |-> "", referenceGedId |-> "", compteFournisseur |-> "",
   categorie_ui |-> "", tva_rate |-> "", date_ticket |-> "", numero_ticket |-> "",
   raison_sociale |-> "", montant_ttc |-> JsNull, ht |-> JsNull,
   tva_montant |-> JsNull]

(***************************************************************************)
(* Server state: configuration, session cache, clock, requests in flight   *)
(***************************************************************************)
Procs == {"r1", "r2"}

TTL_MS == 600000
\* the clock advances in half-TTL steps, so that now - at = TTL_MS is reached
TickMs == TTL_MS \div 2
MaxTicks == 2
MaxTok == 3

Token(i) == "UUID" \o ToString(i)

CfgNone == [baseUrl |-> "", identifiant |-> "", motdepasse |-> "", codeDossier |-> ""]
CfgA == [baseUrl |-> "https://cnx.example/api", identifiant |-> "userA",
         motdepasse |-> "pwA", codeDossier |-> "DA_CONSEIL"]
CfgB == [baseUrl |-> "https://cnx.example/api", identifiant |-> "userB",
         motdepasse |-> "pwB", codeDossier |-> "DB_AUDIT"]
CfgNoDossier == [CfgA EXCEPT !.codeDossier = ""]

\* bodies the admin UI posts to /api/admin/config
ConfigInputs == {CfgA, CfgB, CfgNoDossier}

\* process environments the server is started in
EnvInputs ==
  {[cnx |-> CfgNone, cropper |-> FALSE, openaiKey |-> TRUE],
   [cnx |-> CfgA, cropper |-> TRUE, openaiKey |-> TRUE]}

\* meta objects posted to /api/receipts/submit in the server model
SubmitInputs ==
  {m \in MetaInputs :
     /\ m.categorie_ui = "petites_fournitures" /\ m.tva_rate \in {"20", "7"}
     /\ m.date_ticket = ValidDate
     /\ m.montant_ttc = JsNum(120000) /\ m.ht = JsNum(100000)
     /\ m.tva_montant = JsNum(20000)}

getConfig ==
  [f \in DOMAIN runtimeConfig |->
     IF runtimeConfig[f] # "" THEN runtimeConfig[f] ELSE env.cnx[f]]

NoResp == [status |-> 0, ok |-> FALSE, error |-> "", gedId |-> ""]

Idle ==
  [pc |-> "idle", op |-> "none", ret |-> "none", uuid |-> "", cd |-> "",
   meta |-> NoMeta, sent |-> <<>>, calls |-> <<>>, resp |-> NoResp,
   gedId |-> "", paths |-> {}, files |-> {}, buf |-> ""]

(***************************************************************************)
(* Local steps of a handler: throw into its catch block, send a request,   *)
(* record the outcome of the request in flight                             *)
(***************************************************************************)
\* a catch block that logs the error and sends nothing
ThrowUnanswered(l, msg) == [l EXCEPT !.pc = "failed", !.files = l.files \ l.paths]

\* catch (e) { res.status(..).json({ error }) } finally { unlink temp files }
Throw(l, msg) ==
  [l EXCEPT !.pc = "done",
            !.resp = [status |-> IF variant = "ref" \/ l.op = "submit" THEN 400 ELSE 500,
                      ok |-> FALSE, error |-> msg, gedId |-> ""],
            !.files = l.files \ l.paths]

Respond(l, gedId) ==
  [l EXCEPT !.pc = "done",
            !.resp = [status |-> 200, ok |-> TRUE, error |-> "", gedId |-> gedId],
            !.files = l.files \ l.paths]

Send(l, ep, uuid, arg, pcw) ==
  [l EXCEPT !.sent = Append(@, [ep |-> ep, uuid |-> uuid, arg |-> arg, res |-> "pending"]),
            !.pc = pcw]

Settle(l, res) == [l EXCEPT !.sent[Len(l.sent)].res = res]

(***************************************************************************)
(* External session manager of the reference revision                      *)
(***************************************************************************)
\* the freshness test with the boundary on the wrong side
cacheFreshInclusive(c) == c.value # "" /\ now - c.at <= TTL_MS

cacheFresh(c) == c.value # "" /\ now - c.at < TTL_MS

RECURSIVE Resume(_, _, _, _)

\* history of the calls of cnxAuthenticate made by the operation: what the call
\* saw in the cache, the clock, and how it went on
Called(l, c, kind) ==
  [l EXCEPT !.calls = Append(@, [kind |-> kind, seen |-> c, clock |-> now,
                                 afterChange |-> configJustChanged])]

\* cnxAuthenticate up to its fetch; k names the caller to resume, c is the
\* cache as the call sees it
cnxAuthenticate(l, c, k) ==
  IF getConfig.baseUrl = ""
    THEN Throw(Called(l, c, "throw"), "Champ obligatoire manquant : CNX_BASE_URL")
  ELSE IF getConfig.identifiant = ""
    THEN Throw(Called(l, c, "throw"), "Champ obligatoire manquant : CNX_IDENTIFIANT")
  ELSE IF getConfig.motdepasse = ""
    THEN Throw(Called(l, c, "throw"), "Champ obligatoire manquant : CNX_MOTDEPASSE")
  ELSE IF cacheFresh(c) THEN Resume(Called(l, c, "hit"), k, c.value, c)
  ELSE Send([Called(l, c, "miss") EXCEPT !.ret = k], "auth", "",
            getConfig.identifiant, "auth_wait")

\* the code after `await cnxAuthenticate()` in each of its three callers
Resume(l, k, tok, c) ==
  CASE k = "post" ->        \* cnxPostEcriture, server.js:384-385
         IF l.cd = ""
           THEN Throw(l, "Champ obligatoire manquant : codeDossier (admin)")
           ELSE cnxAuthenticate([l EXCEPT !.uuid = tok], c, "dossier")
    [] k = "dossier" ->     \* cnxOpenDossierSession, server.js:314-325
         IF l.cd = ""
           THEN Throw(l, "Champ obligatoire manquant : codeDossier")
           ELSE Send(l, "dossier", tok, l.cd, "dossier_wait")
    [] k = "ged" ->         \* cnxUploadGedDocument, server.js:336-360
         Send([l EXCEPT !.uuid = tok], "ged", tok, "945", "ged_wait")

(***************************************************************************)
(* cnxAuthenticate of the Gemini revisions: no cache                       *)
(***************************************************************************)
\* part_000:67-74
authP000(l, k) ==
  IF runtimeConfig.baseUrl = "" THEN Throw(l, "Champ manquant : URL API")
  ELSE Send([l EXCEPT !.ret = k], "auth", "", runtimeConfig.identifiant, "auth_wait")

\* server.js:1263-1269
authGemini(l, k) ==
  Send([l EXCEPT !.ret = k], "auth", "", runtimeConfig.identifiant, "auth_wait")

\* the token each revision's cnxAuthenticate returns for an outcome of the
\* authenticate request; "" stands for a thrown error
AuthOutcomes == {"ok", "no_uuid", "http_error", "net_error"}

\* a token taken from the response whatever its status and shape
tokenOfUnchecked(v, res, fresh) == IF res = "ok" THEN fresh ELSE "undefined"

tokenOf(v, res, fresh) ==
  CASE res = "ok" -> fresh
    [] res = "net_error" -> ""
    [] res = "http_error" -> IF v = "gemini" THEN "undefined" ELSE ""
    [] res = "no_uuid" -> IF v = "ref" THEN "" ELSE "undefined"

authError(v, res) ==
  CASE v = "ref" /\ res = "http_error" -> "Authentification CNX"
    [] v = "ref" /\ res = "no_uuid" -> "UUID introuvable dans la reponse auth"
    [] v = "p000" /\ res = "http_error" -> "Echec auth CNX"
    [] OTHER -> "fetch failed"

\* the code after `await cnxAuthenticate()` in the Gemini revisions
ResumeGemini(l, k, tok) ==
  CASE k = "post" /\ variant = "p000" ->      \* part_000:168-172
         Send([l EXCEPT !.uuid = tok], "dossier", tok, runtimeConfig.codeDossier,
              "dossier_wait")
    [] k = "post" /\ variant = "gemini" ->    \* server.js:1340-1355
         Send([l EXCEPT !.uuid = tok], "post", tok, "ecriture", "post_wait")
    [] k = "ged" ->                           \* part_000:83-97, server.js:1276-1290
         Send([l EXCEPT !.uuid = tok], "ged", tok, "945", "ged_wait")

(***************************************************************************)
(* POST /api/receipts/submit                                               *)
(***************************************************************************)
Step(p, l) ==
  /\ proc' = [proc EXCEPT ![p] = l]
  /\ configJustChanged' = FALSE
  /\ UNCHANGED <<variant, env, runtimeConfig, now, slots, staleTokens, pureVars>>

SubmitStart(p, m) ==
  /\ p \in slots
  /\ proc[p].pc = "idle"
  /\ LET l0 == [Idle EXCEPT !.op = "submit", !.meta = m,
                            !.cd = IF variant = "ref" THEN getConfig.codeDossier ELSE ""]
     IN Step(p, CASE variant = "ref" ->
                       IF ~submitBuildRef(m).ok THEN Throw(l0, submitBuildRef(m).error)
                       ELSE cnxAuthenticate(l0, cachedUuid, "post")
                  [] variant = "p000" -> authP000(l0, "post")
                  [] variant = "gemini" -> authGemini(l0, "post"))
  /\ UNCHANGED <<cachedUuid, issued>>

\* the response to the authenticate request arrives
AuthDone(p, res) ==
  /\ proc[p].pc = "auth_wait"
  /\ res = "ok" => issued < MaxTok
  /\ LET l == Settle(proc[p], res)
         tok == tokenOf(variant, res, Token(issued + 1))
         c == IF variant = "ref" /\ res = "ok"
                THEN [value |-> tok, at |-> now] ELSE cachedUuid
     IN /\ cachedUuid' = c
        /\ issued' = IF res = "ok" THEN issued + 1 ELSE issued
        /\ Step(p, IF tok = "" THEN Throw(l, authError(variant, res))
                   ELSE IF variant = "ref" THEN Resume(l, l.ret, tok, c)
                   ELSE ResumeGemini(l, l.ret, tok))

\* the response to the open-dossier-session request arrives
DossierOutcomes == {"ok", "http_error", "net_error"}

DossierDoneSubmit(p, res) ==
  /\ proc[p].pc = "dossier_wait" /\ proc[p].op = "submit"
  /\ LET l == Settle(proc[p], res)
     IN Step(p, CASE variant = "ref" ->       \* server.js:327-328, 387-397
                       IF res = "ok" THEN Send(l, "post", l.uuid, "ecriture", "post_wait")
                       ELSE Throw(l, "Session dossier CNX")
                  [] OTHER ->                 \* part_000:168-196: status not read
                       IF res = "net_error" THEN Throw(l, "fetch failed")
                       ELSE Send(l, "post", l.uuid, "ecriture", "post_wait"))
  /\ UNCHANGED <<cachedUuid, issued>>

\* the response to the ledger post arrives
PostOutcomes == {"ok", "http_error", "net_error"}

PostDone(p, res) ==
  /\ proc[p].pc = "post_wait"
  /\ LET l == Settle(proc[p], res)
     IN Step(p, CASE res = "ok" -> Respond(l, "")
                  [] res = "net_error" -> Throw(l, "fetch failed")
                  [] res = "http_error" ->
                       IF variant = "gemini" THEN Respond(l, "")   \* server.js:1351-1357
                       ELSE Throw(l, "Envoi ecriture"))
  /\ UNCHANGED <<cachedUuid, issued>>

\* the HTTP response has been written; the slot takes the next request
Finish(p) ==
  /\ proc[p].pc = "done"
  /\ Step(p, Idle)
  /\ UNCHANGED <<cachedUuid, issued>>

(***************************************************************************)
(* POST /api/ged/upload                                                    *)
(***************************************************************************)
UploadStart(p, hasFile) ==
  /\ p \in slots
  /\ proc[p].pc = "idle"
  /\ LET l0 == [Idle EXCEPT !.op = "upload"]
         \* multer({ dest: "uploads/" }) has stored the file before the handler runs
         l1 == [l0 EXCEPT !.files = {"pdf"}, !.paths = {"pdf"},
                          !.cd = getConfig.codeDossier]
     IN Step(p, CASE variant = "ref" ->       \* server.js:502-507
                       IF ~hasFile THEN Throw(l0, "Aucun PDF")
                       ELSE IF l1.cd = ""
                         THEN Throw(l1, "Champ obligatoire manquant : codeDossier (admin)")
                       ELSE cnxAuthenticate(l1, cachedUuid, "dossier")
                  [] OTHER ->                 \* part_000:105-125, server.js:1298-1301
                       IF ~hasFile THEN Throw(l0, "Fichier absent")
                       ELSE Send(l0, "extract", "", "gemini", "extract_wait"))
  /\ UNCHANGED <<cachedUuid, issued>>

\* server.js:507-525: dossier session opened, read the PDF, call the cropper
DossierDoneUpload(p, res) ==
  /\ proc[p].pc = "dossier_wait" /\ proc[p].op = "upload"
  /\ LET l == Settle(proc[p], res)
     IN Step(p, IF res # "ok" THEN Throw(l, "Session dossier CNX")
                ELSE IF env.cropper THEN Send(l, "crop", "", "pdf", "crop_wait")
                ELSE [l EXCEPT !.pc = "write_wait", !.paths = @ \cup {"processed"},
                               !.buf = "original"])
  /\ UNCHANGED <<cachedUuid, issued>>

\* server.js:515-525: a cropper failure falls back to the original PDF
CropOutcomes == {"ok", "fail"}

\* a cropper that is called again after a failure
CropDoneRetry(p, res) ==
  /\ proc[p].pc = "crop_wait"
  /\ Step(p, IF res = "fail"
               THEN Send(Settle(proc[p], res), "crop", "", "pdf", "crop_wait")
               ELSE [Settle(proc[p], res) EXCEPT !.pc = "write_wait",
                                                 !.paths = @ \cup {"processed"},
                                                 !.buf = "cropped"])
  /\ UNCHANGED <<cachedUuid, issued>>

CropDone(p, res) ==
  /\ proc[p].pc = "crop_wait"
  /\ Step(p, [Settle(proc[p], res) EXCEPT
                !.pc = "write_wait",
                !.paths = @ \cup {"processed"},
                !.buf = IF res = "ok" THEN "cropped" ELSE "original"])
  /\ UNCHANGED <<cachedUuid, issued>>

\* server.js:525-532: processed PDF written, upload it to the GED
WriteDone(p) ==
  /\ proc[p].pc = "write_wait"
  /\ Step(p, cnxAuthenticate([proc[p] EXCEPT !.files = @ \cup {"processed"}],
                             cachedUuid, "ged"))
  /\ UNCHANGED <<cachedUuid, issued>>

\* the id each revision reads from the response of the GED upload; "" stands
\* for a thrown error
GedOutcomes == {"ok", "no_id", "http_error", "net_error"}

gedIdOf(v, res) ==
  CASE res = "ok" -> "GED-1"
    [] res = "net_error" -> ""
    [] OTHER -> IF v = "ref" THEN "" ELSE "undefined"

GedDone(p, res) ==
  /\ proc[p].pc = "ged_wait"
  /\ LET l == Settle(proc[p], res)
         id == gedIdOf(variant, res)
     IN Step(p, IF id = "" THEN Throw(l, "Upload GED")
                ELSE IF variant = "ref"       \* server.js:535
                  THEN Send([l EXCEPT !.gedId = id], "raster", "", "pdftoppm", "raster_wait")
                ELSE Respond(l, id))          \* part_000:133-154
  /\ UNCHANGED <<cachedUuid, issued>>

\* server.js:535-537: pdftoppm has run, read the PNG and call the extractor
\* pdftoppm is an external process: it may fail before or after it has written
\* the page image, and it names the image <base>-1.png only when the document
\* has fewer than ten pages (the page number is padded to the width of the page
\* count); pngPath is assigned when pdfFirstPageToPng returns.
RasterOutcomes == {"ok", "ok_padded", "fail", "fail_written"}

RasterDone(p, res) ==
  /\ proc[p].pc = "raster_wait"
  /\ LET l == Settle(proc[p], res)
         l1 == [l EXCEPT !.paths = @ \cup {"png"}, !.files = @ \cup {"png"}]
         l2 == [l EXCEPT !.paths = @ \cup {"png"}, !.files = @ \cup {"png_padded"}]
         l3 == [l EXCEPT !.files = @ \cup {"png"}]
     IN Step(p, CASE res = "fail" -> Throw(l, "pdftoppm")
                  [] res = "fail_written" -> Throw(l3, "pdftoppm")
                  [] res = "ok_padded" ->      \* fs.readFile(pngPath) rejects
                       Throw(l2, "ENOENT: no such file or directory")
                  [] res = "ok" ->
                       IF ~env.openaiKey THEN Throw(l1, "OPENAI_API_KEY manquante (env)")
                       ELSE Send(l1, "extract", "", "openai", "extract_wait"))
  /\ UNCHANGED <<cachedUuid, issued>>

ExtractOutcomes == {"ok", "no_json", "bad_json", "http_error"}

ExtractDone(p, res) ==
  /\ proc[p].pc = "extract_wait"
  /\ LET l == Settle(proc[p], res)
     IN Step(p, IF res # "ok" THEN Throw(l, "extraction")
                ELSE CASE variant = "ref" -> Respond(l, l.gedId)       \* server.js:539-565
                       [] variant = "p000" -> authP000(l, "ged")       \* part_000:133
                       [] variant = "gemini" -> authGemini(l, "ged"))  \* server.js:1304
  /\ UNCHANGED <<cachedUuid, issued>>

(***************************************************************************)
(* POST /api/admin/config, and the clock                                   *)
(***************************************************************************)
ConfigChange(c) ==
  /\ runtimeConfig' = c
  /\ cachedUuid' = IF variant = "ref" THEN [value |-> "", at |-> 0] ELSE cachedUuid
  /\ staleTokens' = staleTokens \cup ({cachedUuid.value} \ {""})
  /\ configJustChanged' = TRUE
  /\ UNCHANGED <<variant, env, now, issued, proc, slots, pureVars>>

Tick ==
  /\ now < MaxTicks * TickMs
  /\ now' = now + TickMs
  /\ UNCHANGED <<variant, env, runtimeConfig, cachedUuid, issued, proc, slots,
                 configJustChanged, staleTokens, pureVars>>

(***************************************************************************)
(* Harness for the pure functions: Init draws a meta object, the actions   *)
(* apply the resolver and the synchronous part of the submit handler.      *)
(***************************************************************************)
ServerIdle ==
  /\ runtimeConfig = env.cnx
  /\ cachedUuid = [value |-> "", at |-> 0]
  /\ now = 0
  /\ issued = 0
  /\ proc = [p \in Procs |-> Idle]
  /\ configJustChanged = FALSE
  /\ staleTokens = {}

Init ==
  /\ variant \in Variants
  /\ env \in EnvInputs
  /\ slots = {"r1"}
  /\ ServerIdle
  /\ inp = NoMeta /\ stage = "off" /\ out = Fail("") /\ resolved = ""

Next ==
  \/ \E p \in Procs, m \in SubmitInputs : SubmitStart(p, m)
  \/ \E p \in Procs, res \in AuthOutcomes : AuthDone(p, res)
  \/ \E p \in Procs, res \in DossierOutcomes : DossierDoneSubmit(p, res)
  \/ \E p \in Procs, res \in PostOutcomes : PostDone(p, res)
  \/ \E p \in Procs, hasFile \in BOOLEAN : UploadStart(p, hasFile)
  \/ \E p \in Procs, res \in DossierOutcomes : DossierDoneUpload(p, res)
  \/ \E p \in Procs, res \in CropOutcomes : CropDone(p, res)
  \/ \E p \in Procs : WriteDone(p)
  \/ \E p \in Procs, res \in GedOutcomes : GedDone(p, res)
  \/ \E p \in Procs, res \in RasterOutcomes : RasterDone(p, res)
  \/ \E p \in Procs, res \in ExtractOutcomes : ExtractDone(p, res)
  \/ \E p \in Procs : Finish(p)
  \/ \E c \in ConfigInputs : ConfigChange(c)
  \/ Tick

(***************************************************************************)
(* The server under the assumption that every external call and every file *)
(* operation eventually resolves or rejects                                *)
(***************************************************************************)
BaseMeta ==
  [journal |-> "ACH", referenceGedId |-> "987", compteFournisseur |-> "FDIVERS",
   categorie_ui |-> "petites_fournitures", tva_rate |-> "20",
   date_ticket |-> ValidDate, numero_ticket |-> "T42", raison_sociale |-> "KAYSER",
   montant_ttc |-> JsNum(120000), ht |-> JsNum(100000), tva_montant |-> JsNum(20000)]

\* a valid meta object and one for each kind of validation failure; the clock
\* stands still in NextLive, a cache miss is reached through a configuration change
LiveInputs ==
  {BaseMeta,
   [BaseMeta EXCEPT !.journal = ""],
   [BaseMeta EXCEPT !.numero_ticket = ""],
   [BaseMeta EXCEPT !.tva_rate = "7"],
   [BaseMeta EXCEPT !.date_ticket = BadDate],
   [BaseMeta EXCEPT !.montant_ttc = JsStr(<<"a", "b", "c">>)]}

NextLive ==
  \/ \E p \in Procs, m \in LiveInputs : SubmitStart(p, m)
  \/ \E p \in Procs, res \in AuthOutcomes : AuthDone(p, res)
  \/ \E p \in Procs, res \in DossierOutcomes : DossierDoneSubmit(p, res)
  \/ \E p \in Procs, res \in PostOutcomes : PostDone(p, res)
  \/ \E p \in Procs, hasFile \in BOOLEAN : UploadStart(p, hasFile)
  \/ \E p \in Procs, res \in DossierOutcomes : DossierDoneUpload(p, res)
  \/ \E p \in Procs, res \in CropOutcomes : CropDone(p, res)
  \/ \E p \in Procs : WriteDone(p)
  \/ \E p \in Procs, res \in GedOutcomes : GedDone(p, res)
  \/ \E p \in Procs, res \in RasterOutcomes : RasterDone(p, res)
  \/ \E p \in Procs, res \in ExtractOutcomes : ExtractDone(p, res)
  \/ \E p \in Procs : Finish(p)
  \/ \E c \in ConfigInputs : ConfigChange(c)

\* a request that was sent is answered, a file operation that was started ends
Fairness ==
  /\ WF_<<variant, serverVars, pureVars>>(\E p \in Procs, res \in AuthOutcomes : AuthDone(p, res))
  /\ WF_<<variant, serverVars, pureVars>>(\E p \in Procs, res \in DossierOutcomes : DossierDoneSubmit(p, res))
  /\ WF_<<variant, serverVars, pureVars>>(\E p \in Procs, res \in PostOutcomes : PostDone(p, res))
  /\ WF_<<variant, serverVars, pureVars>>(\E p \in Procs, res \in DossierOutcomes : DossierDoneUpload(p, res))
  /\ WF_<<variant, serverVars, pureVars>>(\E p \in Procs, res \in CropOutcomes : CropDone(p, res))
  /\ WF_<<variant, serverVars, pureVars>>(\E p \in Procs : WriteDone(p))
  /\ WF_<<variant, serverVars, pureVars>>(\E p \in Procs, res \in GedOutcomes : GedDone(p, res))
  /\ WF_<<variant, serverVars, pureVars>>(\E p \in Procs, res \in RasterOutcomes : RasterDone(p, res))
  /\ WF_<<variant, serverVars, pureVars>>(\E p \in Procs, res \in ExtractOutcomes : ExtractDone(p, res))

InitBuild ==
  /\ variant \in Variants
  /\ env = [cnx |-> CfgNone, cropper |-> FALSE, openaiKey |-> TRUE]
  /\ slots = {}
  /\ ServerIdle
  /\ inp \in MetaInputs
  /\ stage = "input"
  /\ out = Fail("")
  /\ resolved = ""

ApplyResolve ==
  /\ stage = "input"
  /\ resolved' = resolveAccount(variant, inp.categorie_ui, inp.tva_rate)
  /\ stage' = "resolved"
  /\ UNCHANGED <<variant, inp, out, serverVars>>

ApplySubmitBuild ==
  /\ stage = "input"
  /\ out' = submitBuild(variant, inp)
  /\ stage' = "built"
  /\ UNCHANGED <<variant, inp, resolved, serverVars>>

NextBuild == ApplyResolve \/ ApplySubmitBuild

(***************************************************************************)
(* Harness for the extraction helpers: Init draws an answer of the         *)
(* extraction service, the actions apply the helpers to it.                *)
(***************************************************************************)
InitExtract ==
  /\ variant \in {"ref", "p000"}
  /\ env = [cnx |-> CfgNone, cropper |-> FALSE, openaiKey |-> TRUE]
  /\ slots = {}
  /\ ServerIdle
  /\ inp \in ExtractionInputs
  /\ stage = "input"
  /\ out = Fail("")
  /\ resolved = ""

ApplyNormalize ==
  /\ stage = "input"
  /\ out' = normalize(variant, inp.montant_ht)
  /\ stage' = "normalized"
  /\ UNCHANGED <<variant, inp, resolved, serverVars>>

ApplyGuess ==
  /\ stage = "input" /\ variant = "ref"
  /\ out' = guessVatRateFromAmounts(inp.montant_ht, inp.montant_tva)
  /\ stage' = "guessed"
  /\ UNCHANGED <<variant, inp, resolved, serverVars>>

ApplyKeywords ==
  /\ stage = "input" /\ variant = "ref"
  /\ out' = suggestFromText(inp.raison_sociale)
  /\ stage' = "matched"
  /\ UNCHANGED <<variant, inp, resolved, serverVars>>

ApplySuggestion ==
  /\ stage = "input"
  /\ out' = suggestionOf(variant, inp)
  /\ stage' = "suggested"
  /\ UNCHANGED <<variant, inp, resolved, serverVars>>

ApplyParse ==
  /\ stage = "input"
  /\ out' = parseExtraction(variant, inp.raw)
  /\ stage' = "parsed"
  /\ UNCHANGED <<variant, inp, resolved, serverVars>>

NextExtract ==
  ApplyNormalize \/ ApplyGuess \/ ApplyKeywords \/ ApplySuggestion \/ ApplyParse

\* two submissions in flight at once on the reference revision, under a
\* configuration that stays as the environment set it
InitRace ==
  /\ variant = "ref"
  /\ env = [cnx |-> CfgA, cropper |-> TRUE, openaiKey |-> TRUE]
  /\ slots = Procs
  /\ ServerIdle
  /\ inp = NoMeta /\ stage = "off" /\ out = Fail("") /\ resolved = ""

NextRace ==
  \/ \E p \in Procs, m \in SubmitInputs : SubmitStart(p, m)
  \/ \E p \in Procs, res \in AuthOutcomes : AuthDone(p, res)
  \/ \E p \in Procs, res \in DossierOutcomes : DossierDoneSubmit(p, res)
  \/ \E p \in Procs, res \in PostOutcomes : PostDone(p, res)
  \/ \E p \in Procs : Finish(p)
  \/ Tick

vars == <<variant, serverVars, pureVars>>

SpecRace == InitRace /\ [][NextRace]_vars

SpecExtract == InitExtract /\ [][NextExtract]_vars

SpecLive == Init /\ [][NextLive]_vars /\ Fairness

Spec == Init /\ [][Next]_vars

SpecBuild == InitBuild /\ [][NextBuild]_vars

(***************************************************************************)
(* Claims about the builder, the VAT table and the resolver (SpecBuild)    *)
(***************************************************************************)
RECURSIVE SumCredit(_)
SumCredit(ls) ==
  IF ls = <<>> THEN 0
  ELSE (IF IsNum(Head(ls).credit) THEN Head(ls).credit.n ELSE 0) + SumCredit(Tail(ls))

RECURSIVE SumDebit(_)
SumDebit(ls) ==
  IF ls = <<>> THEN 0
  ELSE (IF IsNum(Head(ls).debit) THEN Head(ls).debit.n ELSE 0) + SumDebit(Tail(ls))

Built == stage = "built" /\ out.ok

\* the tax amount the reference submit handler hands to the builder
taxAmountOf(meta) ==
  LET tva == deriveTva(toNumberOrNull(meta.montant_ttc), toNumberOrNull(meta.ht),
                       meta.tva_montant)
  IN IF tva.t # "null" THEN tva.n ELSE 0

\* C1: every ledger entry returned by buildEcriturePayload (and so posted by
\* /api/receipts/submit) is balanced: the sum of the credits of its lines equals
\* the sum of the debits, at 2-decimal precision, whatever accepted ttc, ht and
\* tva it was built from.
C1_BalanceLaw ==
  (Built /\ variant = "ref") =>
     SumCredit(out.payload.lignesEcriture) = SumDebit(out.payload.lignesEcriture)

\* the pairs the resolver table defines (server.js:84-105)
DefinedPairs ==
  {<<"petites_fournitures", "20">>, <<"petites_fournitures", "10">>,
   <<"carburant", "20">>, <<"repas_pro", "10">>, <<"repas", "0">>,
   <<"papeterie", "20">>, <<"peages", "20">>, <<"parking", "20">>}

\* C5: the resolver returns a non-empty charges account exactly for the pairs of
\* the defined table and rejects (empty result) every other pair, never mapping an
\* unmapped pair to a fallback account; petites_fournitures at "20" and at "10"
\* get different accounts.
C5_ResolverStrict ==
  /\ stage = "resolved" =>
       (resolved # "" <=> <<inp.categorie_ui, inp.tva_rate>> \in DefinedPairs)
  /\ resolveAccount(variant, "petites_fournitures", "20")
       # resolveAccount(variant, "petites_fournitures", "10")

\* the keys of the VAT table of the running revision
vatKeys(v) == IF v = "p000" THEN DOMAIN VAT_MAP ELSE DOMAIN VAT

\* C6: a submission whose VAT rate identifier is not a key of the VAT table fails;
\* the tax code and tax-liability account of the 20% entry are never substituted.
C6_UnknownRateFails ==
  (stage = "built" /\ inp.tva_rate \notin vatKeys(variant)) => ~out.ok

\* C10: every entry the builder returns has 2 or 3 lines in the order supplier
\* (credit = round2(TTC), debit 0), charges (debit = round2(HT), credit 0), tax
\* (debit = round2(tax), credit 0), the tax line being present exactly when the
\* tax amount rounded to 2 decimals is strictly positive; 120.00/100.00/20.00 for
\* petites_fournitures at "20" gives 120.00 / 100.00 on 60631000 tagged TN /
\* 20.00 on 44566200.
C10_EntryShape ==
  (Built /\ variant = "ref") =>
    LET ls == out.payload.lignesEcriture
        tax == taxAmountOf(inp)
    IN /\ Len(ls) \in {2, 3}
       /\ ls[1].credit = JsNum(round2(inp.montant_ttc.n)) /\ ls[1].debit = JsNum(0)
       /\ ls[1].compte = inp.compteFournisseur
       /\ ls[2].debit = JsNum(round2(inp.ht.n)) /\ ls[2].credit = JsNum(0)
       /\ (Len(ls) = 3 <=> round2(tax) > 0)
       /\ Len(ls) = 3 =>
            ls[3].debit = JsNum(round2(tax)) /\ ls[3].credit = JsNum(0)
       /\ (/\ inp.montant_ttc = JsNum(120000) /\ inp.ht = JsNum(100000)
           /\ tax = 20000 /\ inp.categorie_ui = "petites_fournitures"
           /\ inp.tva_rate = "20")
          => /\ Len(ls) = 3
             /\ ls[1].credit = JsNum(120000)
             /\ ls[2].debit = JsNum(100000) /\ ls[2].compte = "60631000"
             /\ ls[2].hasCodeTVA /\ ls[2].codeTVA = "TN"
             /\ ls[3].debit = JsNum(20000) /\ ls[3].compte = "44566200"

\* exactly one of credit and debit is non-zero
OneSided(l) ==
  (IsNum(l.credit) /\ l.credit.n # 0) # (IsNum(l.debit) /\ l.debit.n # 0)

\* C11: in every line of every ledger entry the builder returns, exactly one of
\* credit and debit is non-zero, for all amounts the submit operation accepts
\* (a total of 0 and a tax amount that rounds to 0.00 included).
C11_LineInvariant ==
  (Built /\ variant = "ref") =>
    \A i \in DOMAIN out.payload.lignesEcriture :
      OneSided(out.payload.lignesEcriture[i])

\* the same submission with the tax amount given explicitly
WithTax(meta, x) == [meta EXCEPT !.tva_montant = JsNum(x)]

\* C12: a submission without explicit tax amount but with TTC and HT uses
\* TTC - HT as tax amount and builds the entry it would build for that value
\* given explicitly (120.00 and 100.00 give the 3-line entry with tax 20.00);
\* when TTC - HT is negative the tax amount is zero and the entry has 2 lines.
C12_DerivedTax ==
  (stage = "built" /\ variant = "ref" /\ inp.tva_montant = JsNull) =>
    LET d == inp.montant_ttc.n - inp.ht.n
        ls == out.payload.lignesEcriture
    IN /\ d >= 0 => /\ taxAmountOf(inp) = d
                     /\ out = submitBuildRef(WithTax(inp, d))
       /\ d < 0 => /\ taxAmountOf(inp) = 0
                    /\ out = submitBuildRef(WithTax(inp, 0))
                    /\ out.ok => Len(ls) = 2
       /\ (/\ out.ok /\ inp.montant_ttc = JsNum(120000) /\ inp.ht = JsNum(100000)
           /\ inp.tva_rate = "20")
          => /\ Len(ls) = 3
             /\ ls[3].debit = JsNum(20000) /\ ls[3].compte = "44566200"

\* a submission without tax amount got the 3-line entry with the derived tax
C12_Witness ==
  /\ Built /\ variant = "ref" /\ inp.tva_montant = JsNull
  /\ inp.montant_ttc = JsNum(120000) /\ inp.ht = JsNum(100000)
  /\ Len(out.payload.lignesEcriture) = 3
  /\ out.payload.lignesEcriture[3].debit = JsNum(20000)

\* the tax amount each revision's submit handler tests before the tax line
taxUsed(v, meta) ==
  IF v = "ref" THEN taxAmountOf(meta)
  ELSE IF IsNum(toNumberOrNull(meta.tva_montant))
    THEN toNumberOrNull(meta.tva_montant).n ELSE 0

\* C13: when the tax amount is strictly positive and the VAT entry of the rate
\* has no tax-liability account (rate "0"), the builder fails with the missing
\* tax-liability-account error and returns no entry; no tax line is ever
\* emitted with an empty account code.
C13_MissingTaxAccount ==
  (stage = "built" /\ variant \in {"ref", "p000"}) =>
    /\ (taxUsed(variant, inp) > 0 /\ inp.tva_rate = "0") =>
          /\ ~out.ok
          /\ submitBuild(variant, WithTax(inp, 0)).ok =>
                out.error = "compteTVA44566 manquant"
    /\ out.ok =>
          \A i \in DOMAIN out.payload.lignesEcriture :
            i = 3 => out.payload.lignesEcriture[i].compte # ""

\* the tax code the VAT table of the running revision holds for a rate
codeOf(v, rate) == IF v = "p000" THEN VAT_MAP[rate].code_tva ELSE VAT[rate].code_tva

\* C14: the charges line carries a tax-code field exactly when the resolved tax
\* code is non-empty: no tax code for rate "0", TN for "20", TI for "10"; the
\* supplier line and the tax line never carry a tax code.
C14_TaxCodeField ==
  (Built /\ variant \in {"ref", "p000"} /\ inp.tva_rate \in vatKeys(variant)) =>
    LET ls == out.payload.lignesEcriture
    IN /\ ls[2].hasCodeTVA <=> codeOf(variant, inp.tva_rate) # ""
       /\ ls[2].hasCodeTVA => ls[2].codeTVA = codeOf(variant, inp.tva_rate)
       /\ inp.tva_rate = "0" => ~ls[2].hasCodeTVA
       /\ inp.tva_rate = "20" => ls[2].hasCodeTVA /\ ls[2].codeTVA = "TN"
       /\ inp.tva_rate = "10" => ls[2].hasCodeTVA /\ ls[2].codeTVA = "TI"
       /\ \A i \in DOMAIN ls : i # 2 => ~ls[i].hasCodeTVA

(***************************************************************************)
(* Claims about the session manager and the handlers (Spec)                *)
(***************************************************************************)
Failed(r) == r.res \notin {"ok", "pending"}

Last(q) == q[Len(q)]

\* the requests of an operation that need an open dossier session
NeedsDossier(r) == r.ep \in {"ged", "post"}

\* C2: in every operation that sends a GED upload or a ledger post, a successful
\* open-dossier-session call has completed earlier in the same operation; when
\* the open-dossier call fails, no upload or post request is sent afterwards.
C2_DossierBeforeUse ==
  \A p \in Procs :
    LET q == proc[p].sent
    IN \A i \in DOMAIN q :
         /\ NeedsDossier(q[i]) =>
              \E j \in 1..(i - 1) :
                q[j].ep = "dossier" /\ q[j].res = "ok" /\ q[j].arg # ""
         /\ (q[i].ep = "dossier" /\ Failed(q[i])) =>
              \A j \in (i + 1)..Len(q) : ~NeedsDossier(q[j])

\* C3, part 1: a call of cnxAuthenticate that passes the configuration check
\* returns from the cache exactly when a token is cached and now - at < 10 min.
CacheRule ==
  \A p \in Procs : \A i \in DOMAIN proc[p].calls :
    LET c == proc[p].calls[i]
    IN c.kind # "throw" =>
         (c.kind = "hit" <=> (c.seen.value # "" /\ c.clock - c.seen.at < 10 * 60 * 1000))

\* the last call of cnxAuthenticate made in this step by p, if any
NewCall(p) == Len(proc'[p].calls) > Len(proc[p].calls)

\* C3, part 2: a cache hit sends no authenticate request and the caller goes on
\* with the cached token; a miss sends the authenticate request.
HitOrMiss ==
  \A p \in Procs :
    NewCall(p) =>
      LET c == Last(proc'[p].calls)
          q == proc'[p].sent
      IN /\ c.kind = "miss" =>
              /\ proc'[p].pc = "auth_wait"
              /\ Len(q) = Len(proc[p].sent) + 1
              /\ Last(q).ep = "auth" /\ Last(q).res = "pending"
         /\ c.kind = "hit" =>
              /\ \A i \in (Len(proc[p].sent) + 1)..Len(q) : q[i].ep # "auth"
              /\ proc'[p].pc # "done" =>
                   Last(q).uuid = c.seen.value /\ c.seen = cachedUuid'

\* C3, part 3: a successful authenticate call replaces the cached token and its
\* acquisition time.
Replaced ==
  \A p \in Procs :
    (/\ variant = "ref" /\ proc[p].pc = "auth_wait" /\ proc'[p].pc # "auth_wait"
     /\ proc'[p].sent[Len(proc[p].sent)].res = "ok")
    => /\ cachedUuid'.value \notin {"", cachedUuid.value}
       /\ cachedUuid'.at = now
       /\ issued' = issued + 1

\* C3: cnxAuthenticate returns the cached token without calling the external
\* authenticate operation exactly while a token is cached and now - acquiredAt
\* < 10 minutes; otherwise it calls the external authenticate operation and (on
\* success) replaces the cached token and its acquisition time.
C3_CacheTTL == [](CacheRule) /\ [][HitOrMiss /\ Replaced]_vars

\* a token request made exactly 10 minutes after acquisition re-authenticated
\* and the cache now holds the new token
C3_Witness ==
  \E p \in Procs : \E i \in DOMAIN proc[p].calls :
    LET c == proc[p].calls[i]
    IN /\ c.kind = "miss" /\ c.seen.value # "" /\ c.clock - c.seen.at = TTL_MS
       /\ proc[p].pc \in {"dossier_wait", "ged_wait"}
       /\ cachedUuid.value \notin {"", c.seen.value}
       /\ cachedUuid.at = c.clock

\* C4, part 1: the configuration change empties the cache in the same step
ResetWithConfig == configJustChanged => cachedUuid = [value |-> "", at |-> 0]

\* C4, part 2: the first token request after the change is never served from
\* the cache
NextRequestMisses ==
  \A p \in Procs : \A i \in DOMAIN proc[p].calls :
    proc[p].calls[i].afterChange => proc[p].calls[i].kind # "hit"

\* C4, part 3: no token request returns a token that was cached when a
\* configuration change ran
NoStaleHit ==
  \A p \in Procs :
    NewCall(p) =>
      \A i \in (Len(proc[p].calls) + 1)..Len(proc'[p].calls) :
        proc'[p].calls[i].kind = "hit" =>
          proc'[p].calls[i].seen.value \notin staleTokens'

\* C4: whenever POST /api/admin/config changes the runtime configuration the
\* cached session token is invalidated in the same step, so the next request for
\* the token is not served from the cache and no request ever returns the token
\* cached before the change.
C4_ConfigInvalidates ==
  [](ResetWithConfig /\ NextRequestMisses) /\ [][NoStaleHit]_vars

\* C7: a submission with an unrecognized VAT rate identifier fails validation
\* before any external call: no request is ever sent by such a submission.
C7_RateCheckedFirst ==
  \A p \in Procs :
    (proc[p].op = "submit" /\ proc[p].meta.tva_rate \notin vatKeys(variant))
    => /\ proc[p].sent = <<>>
       /\ proc[p].pc = "done" /\ ~proc[p].resp.ok

\* C8: every failure of an external call during a submission aborts the
\* remaining steps and the caller receives a failure; a submission is reported ok
\* only if the ledger post itself succeeded.
C8_FailureAborts ==
  \A p \in Procs :
    proc[p].op = "submit" =>
      LET q == proc[p].sent
      IN /\ \A i \in DOMAIN q :
              Failed(q[i]) => /\ i = Len(q)
                              /\ proc[p].pc = "done" /\ ~proc[p].resp.ok
         /\ proc[p].resp.ok => (q # <<>> /\ Last(q).ep = "post" /\ Last(q).res = "ok")

\* an authenticate or open-dossier request of p is rejected in this step
SessionError(p) ==
  /\ proc[p].pc \in {"auth_wait", "dossier_wait"}
  /\ proc'[p].pc = "done"
  /\ proc'[p].sent[Len(proc[p].sent)].res = "http_error"

\* C9: when the authenticate call or the open-dossier-session call is rejected,
\* the cached token is invalidated: after the failure the cache holds no token.
C9_SessionErrorInvalidates ==
  [][\A p \in Procs : SessionError(p) => cachedUuid'.value = ""]_vars

\* C16: a document upload succeeds only if the response body carries an id
\* under one of the checked field names; when the HTTP status is a success but no
\* id is present (or the upload request fails) the upload operation fails and no
\* document id, in particular not "undefined" or "", is returned to the caller.
C16_UploadNeedsId ==
  \A p \in Procs :
    proc[p].op = "upload" =>
      LET q == proc[p].sent
      IN /\ \A i \in DOMAIN q :
              (q[i].ep = "ged" /\ Failed(q[i])) =>
                /\ i = Len(q)
                /\ proc[p].pc = "done" /\ ~proc[p].resp.ok /\ proc[p].resp.gedId = ""
         /\ proc[p].resp.ok =>
              /\ proc[p].resp.gedId \notin {"", "undefined"}
              /\ \E i \in DOMAIN q : q[i].ep = "ged" /\ q[i].res = "ok"

\* C17, part 1: a failed authenticate call ends the operation with a failure and
\* hands no token to the caller, so no request follows it
AuthFailureAborts ==
  \A p \in Procs :
    \A i \in DOMAIN proc[p].sent :
      (proc[p].sent[i].ep = "auth" /\ Failed(proc[p].sent[i])) =>
        /\ i = Len(proc[p].sent)
        /\ proc[p].pc = "done" /\ ~proc[p].resp.ok

\* C17, part 2: a failed authenticate call leaves the cached token and its
\* acquisition time unchanged
AuthFailureKeepsCache ==
  \A p \in Procs :
    (/\ proc[p].pc = "auth_wait" /\ proc'[p].pc # "auth_wait"
     /\ proc'[p].sent[Len(proc[p].sent)].res # "ok")
    => cachedUuid' = cachedUuid

\* C17: authentication fails when the external authenticate call returns an
\* error status or its response body has no token under any checked field path;
\* then no token is returned to the caller and the cached token and its
\* acquisition time are unchanged.
C17_AuthFailure ==
  /\ []((variant \in {"ref", "p000"}) => AuthFailureAborts)
  /\ [][(variant \in {"ref", "p000"}) => AuthFailureKeepsCache]_vars

\* some required field of the configuration is empty
ConfigIncomplete == \E f \in DOMAIN getConfig : getConfig[f] = ""

\* C18: absence of a required configuration field (base URL, identifier, secret,
\* tenant code) is a hard failure at the point of use: an operation that needs
\* the ledger API and starts while one of the fields is empty fails without
\* issuing any external request, a still-valid cached token notwithstanding.
C18_ConfigRequired ==
  [][\A p \in Procs :
       (/\ variant = "ref" /\ ConfigIncomplete
        /\ proc[p].pc = "idle" /\ proc'[p].pc # "idle")
       => /\ proc'[p].sent = <<>>
          /\ proc'[p].pc = "done" /\ ~proc'[p].resp.ok]_vars

LedgerCall(r) == r.ep \in {"auth", "dossier", "ged", "post"}

\* C19: within one upload operation the external calls are issued one at a time,
\* each after the previous one has resolved, in the order rasterize, extract,
\* authenticate, open-dossier-scope, upload: no ledger-API call precedes
\* rasterization and extraction.
C19_UploadCallOrder ==
  \A p \in Procs :
    proc[p].op = "upload" =>
      LET q == proc[p].sent
      IN /\ \A i \in DOMAIN q : i < Len(q) => q[i].res # "pending"
         /\ \A j \in DOMAIN q :
              /\ LedgerCall(q[j]) =>
                   \E i \in 1..(j - 1) : q[i].ep = "extract" /\ q[i].res = "ok"
              /\ (q[j].ep = "extract" /\ variant = "ref") =>
                   \E i \in 1..(j - 1) : q[i].ep = "raster" /\ q[i].res = "ok"
              /\ q[j].ep = "ged" =>
                   \A i \in (j + 1)..Len(q) : q[i].ep \notin {"auth", "dossier"}

\* C20: when a step of an upload operation fails after the GED upload of the
\* same operation has succeeded, the response identifies the document that was
\* already uploaded instead of reporting only the error.
C20_PartialFailureSurfaced ==
  \A p \in Procs :
    (/\ proc[p].op = "upload" /\ proc[p].pc = "done" /\ ~proc[p].resp.ok
     /\ \E i \in DOMAIN proc[p].sent :
          proc[p].sent[i].ep = "ged" /\ proc[p].sent[i].res = "ok")
    => (proc[p].resp.gedId # "" /\ proc[p].resp.gedId = proc[p].gedId)

\* the number of requests an operation has sent to an endpoint
RECURSIVE CountEp(_, _)
CountEp(q, ep) ==
  IF q = <<>> THEN 0
  ELSE (IF Head(q).ep = ep THEN 1 ELSE 0) + CountEp(Tail(q), ep)

\* after a failed call no further request goes to the same endpoint
NoRequestAfterFailure ==
  \A p \in Procs :
    LET q == proc[p].sent
    IN \A i \in DOMAIN q : Failed(q[i]) =>
         \A j \in (i + 1)..Len(q) : q[j].ep # q[i].ep

\* C21 as stated: no external operation is retried: after a failed call no
\* further request goes to the same endpoint, and each of authenticate,
\* open-dossier-session, upload-document and post-ledger-entry is requested at
\* most once per operation.
C21_NoRetryAsStated ==
  /\ NoRequestAfterFailure
  /\ \A p \in Procs : \A ep \in {"auth", "dossier", "ged", "post"} :
       CountEp(proc[p].sent, ep) <= 1

\* C21, amended: no external operation is retried: after a failed call no
\* further request goes to the same endpoint; open-dossier-session,
\* upload-document, post-ledger-entry and the cropper are requested at most once
\* per operation; authenticate is requested at most once per submission and at
\* most twice per upload, the second time only after the first succeeded and
\* the token request of the GED upload found no fresh token in the cache.
C21_NoRetry ==
  /\ NoRequestAfterFailure
  /\ \A p \in Procs :
       LET q == proc[p].sent
       IN /\ \A ep \in {"dossier", "ged", "post", "crop", "raster", "extract"} :
               CountEp(q, ep) <= 1
          /\ CountEp(q, "auth") <= (IF proc[p].op = "upload" THEN 2 ELSE 1)
          /\ CountEp(q, "auth") = 2 =>
               /\ variant = "ref"
               /\ q[1].ep = "auth" /\ q[1].res = "ok"
               /\ Last(proc[p].calls).kind = "miss"
               /\ \/ Last(proc[p].calls).seen.value = ""
                  \/ Last(proc[p].calls).clock - Last(proc[p].calls).seen.at >= TTL_MS

\* an upload authenticated twice: its token had expired before the GED upload
C21_Witness ==
  \E p \in Procs :
    /\ proc[p].op = "upload" /\ CountEp(proc[p].sent, "auth") = 2
    /\ proc[p].sent[1].res = "ok"
    /\ Last(proc[p].calls).seen.value # ""
    /\ proc[p].pc = "ged_wait"

\* C27: within one upload or submit operation the token sent with the GED upload
\* or the ledger post is the token the dossier session of that operation was
\* opened with, whatever other operations, cache expiries or configuration
\* changes happen between the operation's token requests.
C27_SameSessionToken ==
  \A p \in Procs :
    LET q == proc[p].sent
    IN \A i \in DOMAIN q : \A j \in DOMAIN q :
         (i < j /\ q[i].ep = "dossier" /\ q[i].res = "ok" /\ q[j].ep \in {"ged", "post"})
         => q[j].uuid = q[i].uuid

\* the response to an authenticate request of p arrives after the configuration
\* changed under it: the change is the step before, or the credentials the
\* request was sent with are no longer the configured ones
AnsweredAfterChange(p) ==
  /\ proc[p].pc = "auth_wait" /\ proc'[p].pc # "auth_wait"
  /\ configJustChanged \/ Last(proc[p].sent).arg # getConfig.identifiant

\* C28: after a configuration change the session cache never holds a token that
\* was obtained with the previous configuration: an authenticate call that is in
\* flight when the configuration changes does not store its token in the cache.
C28_NoStaleStore ==
  [][\A p \in Procs : AnsweredAfterChange(p) => cachedUuid' = cachedUuid]_vars

\* C29: the temporary files of an upload operation (received PDF, processed PDF,
\* page image) are deleted when the operation completes, on success and on a
\* failure at any step; a failure or timeout of the cropping service does not
\* abort the operation, which continues with the original PDF.
C29_TempFilesDeleted ==
  \A p \in Procs :
    /\ proc[p].pc = "done" => proc[p].files = {}
    /\ (proc[p].sent # <<>> /\ Last(proc[p].sent).ep = "crop"
        /\ Last(proc[p].sent).res = "fail")
       => proc[p].pc = "write_wait" /\ proc[p].buf = "original"

(***************************************************************************)
(* Claims about termination (SpecLive)                                     *)
(***************************************************************************)
\* the messages of a validation failure of the submit operation: each names the
\* field, the category/VAT combination or the date
ValidationMessages ==
  {"Champ obligatoire manquant : " \o f :
     f \in {"journal", "referenceGedId", "compteFournisseur (F...)", "categorie_ui",
            "tva_rate (20/10/0)", "date_ticket", "numero_ticket", "raison_sociale",
            "montant_ttc", "ht"}}
  \cup {"Combinaison categorie/TVA invalide", "tva_rate invalide (20/10/0)",
        "Date invalide"}

\* nothing is sent to the caller before the handler is done, and the response
\* is ok or a failure with a message
OneResponseShape ==
  \A p \in Procs :
    /\ proc[p].pc # "done" => proc[p].resp = NoResp
    /\ proc[p].pc = "done" =>
         \/ proc[p].resp.ok /\ proc[p].resp.status = 200 /\ proc[p].resp.error = ""
         \/ ~proc[p].resp.ok /\ proc[p].resp.status \in {400, 500}
            /\ proc[p].resp.error # ""

\* a meta object that fails the validation of the submit handler is answered
\* with the message of the failure and before any external call
ValidationAnswered ==
  \A p \in Procs :
    (variant = "ref" /\ proc[p].op = "submit" /\ ~submitBuildRef(proc[p].meta).ok) =>
      /\ proc[p].pc = "done"
      /\ proc[p].sent = <<>>
      /\ proc[p].resp = [status |-> 400, ok |-> FALSE,
                         error |-> submitBuildRef(proc[p].meta).error, gedId |-> ""]
      /\ proc[p].meta \in LiveInputs => proc[p].resp.error \in ValidationMessages

\* a response that was sent is not followed by another one
RespondsOnce ==
  \A p \in Procs :
    proc[p].pc = "done" =>
      \/ proc'[p] = proc[p]
      \/ proc'[p] = Idle

\* C30: every invocation of the upload and of the submit operation eventually
\* sends exactly one response, provided every external call eventually resolves
\* or rejects: ok on success, or a failure with a human-readable message that
\* names the offending field, the category/VAT combination or the date; a
\* validation failure is answered without any external call having been issued.
C30_AlwaysAnswers ==
  /\ [](OneResponseShape /\ ValidationAnswered)
  /\ [][RespondsOnce]_vars
  /\ \A p \in Procs : (proc[p].pc # "idle") ~> (proc[p].pc = "done")

\* a submit with a missing field was answered with its name, no call issued
C30_Witness ==
  /\ variant = "ref" /\ proc["r1"].op = "submit" /\ proc["r1"].pc = "done"
  /\ proc["r1"].meta.numero_ticket = "" /\ proc["r1"].sent = <<>>
  /\ proc["r1"].resp.error = "Champ obligatoire manquant : numero_ticket"

(***************************************************************************)
(* Claims about the extraction helpers (SpecExtract)                       *)
(***************************************************************************)
\* the pre-tax amount is a finite positive number and the tax amount a finite
\* non-negative one
Evaluable(ht, tva) == ht.t = "number" /\ ht.n > 0 /\ tva.t = "number" /\ tva.n >= 0

\* tax / pre-tax is within 0.03 of 0.20, within 0.02 of 0.10
InBand20(ht, tva) == Abs(100 * tva.n - 20 * ht.n) < 3 * ht.n
InBand10(ht, tva) == Abs(100 * tva.n - 10 * ht.n) < 2 * ht.n

\* C22: the ratio guesser gives no guess unless the pre-tax amount is a finite
\* positive number and the tax amount finite and non-negative; then it gives "20"
\* when tax/pre-tax is within 0.03 of 0.20, "10" when within 0.02 of 0.10, "0"
\* when the tax is zero, and no guess otherwise (ht = 100: 20 gives "20", 10 gives
\* "10", 0 gives "0", 15 gives none); the three bands are pairwise disjoint.
C22_RatioGuesser ==
  stage = "guessed" =>
    LET ht == inp.montant_ht
        tva == inp.montant_tva
    IN /\ ~Evaluable(ht, tva) => out = Absent
       /\ Evaluable(ht, tva) =>
            /\ out = "20" <=> InBand20(ht, tva)
            /\ out = "10" <=> InBand10(ht, tva)
            /\ out = "0" <=> tva.n = 0
            /\ out = Absent <=> ~(InBand20(ht, tva) \/ InBand10(ht, tva) \/ tva.n = 0)
            /\ ~(InBand20(ht, tva) /\ InBand10(ht, tva))
            /\ tva.n = 0 => ~(InBand20(ht, tva) \/ InBand10(ht, tva))
       /\ ht = JsNum(100000) =>
            /\ tva = JsNum(20000) => out = "20"
            /\ tva = JsNum(10000) => out = "10"
            /\ tva = JsNum(0) => out = "0"
            /\ tva = JsNum(15000) => out = Absent

\* the guesser answered "10" for ht = 100, tva = 10
C22_Witness ==
  /\ stage = "guessed" /\ inp.montant_ht = JsNum(100000)
  /\ inp.montant_tva = JsNum(10000) /\ out = "10"

\* what the two sources of the suggestion give for the extraction under test
ratioGuessOf(e) ==
  guessVatRateFromAmounts(toNumberOrNull(e.montant_ht), toNumberOrNull(e.montant_tva))

keywordsOf(e) == suggestFromText(JoinSp(<<e.raison_sociale>> \o e.mots_cles))

\* C23: in the suggestion of the upload operation the VAT rate is the ratio-based
\* guess whenever there is one (the guess "0" included) and the keyword-based
\* rate only otherwise; category and supplier-account hint always come from the
\* keyword matcher and do not depend on the amounts.
C23_SuggestionPrecedence ==
  (stage = "suggested" /\ variant = "ref") =>
    /\ ratioGuessOf(inp) # Absent => out.tva_rate = ratioGuessOf(inp)
    /\ ratioGuessOf(inp) = Absent => out.tva_rate = keywordsOf(inp).tva_rate
    /\ out.categorie_ui = keywordsOf(inp).categorie_ui
    /\ out.compteF = keywordsOf(inp).compteF
    /\ \A h \in {JsNull, JsNum(100000)}, t \in {JsNull, JsNum(0), JsNum(20000)} :
         LET o == suggestionRef([inp EXCEPT !.montant_ht = h, !.montant_tva = t])
         IN o.categorie_ui = out.categorie_ui /\ o.compteF = out.compteF

\* the ratio guess "0" overrode the keyword rate "10" of a restaurant ticket
C23_Witness ==
  /\ stage = "suggested" /\ variant = "ref"
  /\ ratioGuessOf(inp) = "0" /\ keywordsOf(inp).tva_rate = "10"
  /\ out.tva_rate = "0" /\ out.categorie_ui = "repas_pro"

\* the keyword sets in their priority order, with the category of each
KeywordSets == <<KwRepas, KwCarburant, KwParking, KwPeage>>
KeywordCategories == <<"repas_pro", "carburant", "parking", "peages">>

Matches(text, i) == hasAny(toLowerCase(text), KeywordSets[i])

\* C24: the keyword matcher checks the sets in the order meal/restaurant, fuel,
\* parking, toll and returns the category of the first set that matches; when no
\* set matches, category and VAT rate are absent and the hint is FDIVERS.
C24_KeywordPriority ==
  stage = "matched" =>
    LET text == inp.raison_sociale
    IN /\ \A i \in 1..4 :
            (Matches(text, i) /\ \A j \in 1..(i - 1) : ~Matches(text, j))
            => out.categorie_ui = KeywordCategories[i]
       /\ (\A i \in 1..4 : ~Matches(text, i)) =>
            out = [categorie_ui |-> Absent, compteF |-> "FDIVERS", tva_rate |-> Absent]
       /\ text = <<"R", "e", "s", "t", "a", "u", "r", "a", "n", "t", " ", "d", "u", " ", "P", "a", "r", "k", "i", "n", "g">> => out.categorie_ui = "repas_pro"
       /\ text = <<"P", "A", "R", "K", " ", "A", "N", "D", " ", "F", "L", "Y">> => out.categorie_ui = "parking"
       /\ text = <<"A", "S", "F", " ", "P", "e_acute", "a", "g", "e">> => out.categorie_ui = "peages"

\* a text that matches the fuel set ("go") and the parking set got carburant
C24_Witness ==
  /\ stage = "matched" /\ inp.raison_sociale = <<"P", "a", "r", "k", "i", "n", "g", " ", "I", "n", "d", "i", "g", "o">>
  /\ Matches(inp.raison_sociale, 2) /\ Matches(inp.raison_sociale, 3)
  /\ out.categorie_ui = "carburant"

\* C25: the numeric normalizer returns a finite number or null for every input:
\* null, undefined, "", non-finite numbers and non-numeric strings give null; a
\* finite number is returned unchanged (1234.5); a string with spaces as
\* thousands separators and a decimal comma gives its value ("1 234,56" gives
\* 1234.56).
C25_Normalizer ==
  stage = "normalized" =>
    LET v == inp.montant_ht
    IN /\ out.t \in {"number", "null"}
       /\ v.t \in {"null", "undefined", "nan", "boolean"} => out = JsNull
       /\ v = JsStr(<<>>) => out = JsNull
       /\ v = JsStr(<<"a", "b", "c">>) => out = JsNull
       /\ v.t = "number" => out = v
       /\ v = JsNum(1234500) => out = JsNum(1234500)
       /\ v = JsStr(<<"1", " ", "2", "3", "4", ",", "5", "6">>) => out = JsNum(1234560)

\* "1 234,56" was normalized to 1234.56
C25_Witness ==
  stage = "normalized" /\ inp.montant_ht = JsStr(<<"1", " ", "2", "3", "4", ",", "5", "6">>) /\ out = JsNum(1234560)

\* the text has a '{' followed later by a '}'
HasBracePair(ts) ==
  \E i \in DOMAIN ts : \E j \in DOMAIN ts : i < j /\ ts[i] = "{" /\ ts[j] = "}"

\* the slice from the first '{' to the last '}'
BraceSlice(ts) == SubSeq(ts, indexOf(ts, "{"), lastIndexOf(ts, "}"))

\* C26: the extraction response parser strips the fences, slices from the first
\* '{' to the last '}' and parses the slice: it returns the object of a single
\* JSON object wrapped in fences or prose, fails with the no-JSON-object-found
\* error when there is no '{' followed by a '}', fails with the invalid-JSON
\* error when the slice does not parse, and returns no value on a failure.
C26_ResponseParser ==
  stage = "parsed" =>
    /\ ~HasBracePair(inp.raw) =>
         out = [ok |-> FALSE, error |-> "OpenAI: JSON introuvable", value |-> NoValue]
    /\ (HasBracePair(inp.raw) /\ ~JSONparse(BraceSlice(inp.raw)).ok) =>
         out = [ok |-> FALSE, error |-> "OpenAI: JSON invalide", value |-> NoValue]
    /\ (HasBracePair(inp.raw) /\ JSONparse(BraceSlice(inp.raw)).ok) =>
         out = [ok |-> TRUE, error |-> "", value |-> RemoveWs(BraceSlice(inp.raw))]
    /\ inp.raw = <<"Voici", " ", "{", "a:1", "}", " ", "merci">> =>
         out.ok /\ out.value = <<"{", "a:1", "}">>
    /\ inp.raw = <<Fence, "\n", "{", "}", "\n", Fence, "\n">> =>
         out.ok /\ out.value = <<"{", "}">>

(***************************************************************************)
(* Claims about concurrent submissions (SpecRace)                          *)
(***************************************************************************)
\* the tokens the external authenticate operation has returned so far
Returned == {Token(i) : i \in 1..issued}

\* C15, part 1: every request that carries a session token carries a token that
\* a successful authenticate call returned
CallersHoldReturnedTokens ==
  \A p \in Procs : \A i \in DOMAIN proc[p].sent :
    proc[p].sent[i].ep # "auth" => proc[p].sent[i].uuid \in Returned

\* C15, part 2: the cache is empty or holds a returned token
CacheHoldsReturnedToken ==
  cachedUuid.value = "" \/ (cachedUuid.value \in Returned /\ cachedUuid.at <= now)

\* C15, part 3: a caller whose authenticate call succeeds goes on with the token
\* that call returned, and the cache then holds that token together with the time
\* of that call; the cached token and its time never change apart
OwnTokenAndTime ==
  /\ \A p \in Procs :
       (/\ proc[p].pc = "auth_wait" /\ proc'[p].pc # "auth_wait"
        /\ proc'[p].sent[Len(proc[p].sent)].res = "ok")
       => /\ issued' = issued + 1
          /\ cachedUuid' = [value |-> Token(issued'), at |-> now]
          /\ proc'[p].pc # "done" => Last(proc'[p].sent).uuid = Token(issued')
  /\ cachedUuid' # cachedUuid =>
       \/ cachedUuid' = [value |-> "", at |-> 0]
       \/ cachedUuid' = [value |-> Token(issued'), at |-> now] /\ issued' = issued + 1

\* C15: when the cache is empty or expired and two submissions request the token
\* concurrently, each may issue its own authenticate call, and the race is safe:
\* every caller proceeds with a token returned by a successful authenticate call,
\* and the cache ends up holding one of the returned tokens with its own
\* acquisition time.
C15_RaceIsSafe ==
  [](CallersHoldReturnedTokens /\ CacheHoldsReturnedToken) /\ [][OwnTokenAndTime]_vars

\* both submissions missed the same empty cache, each got its own token, and the
\* cache holds the token of the one that completed last, with its time
C15_Witness ==
  /\ staleTokens = {}
  /\ \A p \in Procs :
       /\ proc[p].op = "submit" /\ proc[p].pc \in {"dossier_wait", "post_wait"}
       /\ proc[p].calls[1].kind = "miss" /\ proc[p].calls[1].seen.value = ""
       /\ proc[p].sent[1].res = "ok"
       /\ proc[p].uuid \in Returned
  /\ proc["r1"].uuid # proc["r2"].uuid
  /\ cachedUuid.value \in {proc["r1"].uuid, proc["r2"].uuid}
  /\ cachedUuid.at = now

====
